---------------------------- MODULE Spec2Model ----------------------------
(***************************************************************************)
(* Model of lambda/prescription-analyzer.py: the medicine matcher          *)
(* (analyze_medicines), the OCR wrapper (extract_text_from_image) and the  *)
(* request handler (lambda_handler).                                       *)
(*                                                                         *)
(* A text is a sequence of one-character strings.  Two specifications:     *)
(*   MatchSpec  analyze_medicines applied to every text of a bounded set;  *)
(*   Spec       NumInvocations invocations of lambda_handler, interleaved  *)
(*              step by step, sharing the table and the storage bucket.    *)
(***************************************************************************)
EXTENDS Integers, Sequences, FiniteSets, TLC

VARIABLES
    db,              \* the module-level MEDICINE_DATABASE
    storage,         \* the S3 bucket: s3 key -> stored bytes
    pc,              \* position of each invocation of lambda_handler
    event,           \* the event each invocation was given
    file_bytes,      \* local file_bytes of each invocation
    extracted_text,  \* local extracted_text of each invocation
    medicines,       \* local medicines of each invocation of analyze_medicines
    response,        \* what each invocation returned
    trace,           \* collaborator calls made by each invocation, in order
    mtext,           \* MatchSpec: the argument of analyze_medicines
    mresult,         \* MatchSpec: its return value
    mphase           \* MatchSpec: "call" before, "returned" after

hvars == <<db, storage, pc, event, file_bytes, extracted_text, medicines,
           response, trace>>
mvars == <<mtext, mresult, mphase>>
vars == <<hvars, mvars>>

---------------------------------------------------------------------------
(* Bounds *)

\* A text of MatchSpec is the concatenation of at most MaxFrags fragments.
MaxFrags == 3

\* Number of invocations of lambda_handler that Spec interleaves.
NumInvocations == 2

---------------------------------------------------------------------------
(* Characters *)

UpperCase == <<"A","B","C","D","E","F","G","H","I","J","K","L","M",
               "N","O","P","Q","R","S","T","U","V","W","X","Y","Z">>
LowerCase == <<"a","b","c","d","e","f","g","h","i","j","k","l","m",
               "n","o","p","q","r","s","t","u","v","w","x","y","z">>
Digits == {"0","1","2","3","4","5","6","7","8","9"}

UpperSet == {UpperCase[i] : i \in 1..26}
LowerSet == {LowerCase[i] : i \in 1..26}

\* str.lower / str.upper on one character
ToLower == [c \in UpperSet |-> LowerCase[CHOOSE i \in 1..26 : UpperCase[i] = c]]
ToUpper == [c \in LowerSet |-> UpperCase[CHOOSE i \in 1..26 : LowerCase[i] = c]]

LowerChar(c) == IF c \in UpperSet THEN ToLower[c] ELSE c
UpperChar(c) == IF c \in LowerSet THEN ToUpper[c] ELSE c

\* a cased character, as str.title sees it
IsLetter(c) == c \in UpperSet \/ c \in LowerSet

\* the regular-expression class \w
IsWordChar(c) == IsLetter(c) \/ c \in Digits \/ c = "_"

\* whitespace removed by str.strip
IsSpace(c) == c \in {" ", "\n", "\t"}

---------------------------------------------------------------------------
(* String operations used by the program *)

\* text.lower()
LowerNoop(text) == text
Lower(text) == [i \in 1..Len(text) |-> LowerChar(text[i])]

\* Python's  sub in s
ContainsShort(sub, s) ==
    \E i \in 0..Len(s) :
        \A j \in 1..Len(sub) : (i + j > Len(s)) \/ s[i + j] = sub[j]
Contains(sub, s) ==
    \E i \in 0..(Len(s) - Len(sub)) :
        \A j \in 1..Len(sub) : s[i + j] = sub[j]

\* the regular-expression assertion \b at position i (between s[i] and s[i+1])
Boundary(s, i) ==
    ((i > 0) /\ IsWordChar(s[i])) # ((i < Len(s)) /\ IsWordChar(s[i + 1]))

\* sub occurs in s starting right after position i
MatchesAt(sub, s, i) ==
    /\ i + Len(sub) <= Len(s)
    /\ \A j \in 1..Len(sub) : s[i + j] = sub[j]

\* The end position of the match of  \b\w+<suffix>\b  attempted at position i,
\* or -1 when the attempt fails.  \w+ is greedy: the longest run comes first
\* and the engine backs off one character at a time.
MatchEndNoBoundary(suffix, s, i) ==
    IF ~Boundary(s, i) THEN -1
    ELSE LET ks == {k \in 1..(Len(s) - i) :
                      /\ \A j \in 1..k : IsWordChar(s[i + j])
                      /\ MatchesAt(suffix, s, i + k)}
         IN IF ks = {} THEN -1
            ELSE (CHOOSE k \in ks : \A k2 \in ks : k2 <= k) + Len(suffix)  + i
MatchEnd(suffix, s, i) ==
    IF ~Boundary(s, i) THEN -1
    ELSE LET ks == {k \in 1..(Len(s) - i) :
                      /\ \A j \in 1..k : IsWordChar(s[i + j])
                      /\ MatchesAt(suffix, s, i + k)
                      /\ Boundary(s, i + k + Len(suffix))}
         IN IF ks = {} THEN -1
            ELSE (CHOOSE k \in ks : \A k2 \in ks : k2 <= k) + Len(suffix) + i

\* re.findall(r'\b\w+<suffix>\b', s): scan left to right, matches do not overlap
RECURSIVE FindallFrom(_, _, _)
FindallFrom(suffix, s, pos) ==
    IF pos >= Len(s) THEN <<>>
    ELSE LET e == MatchEnd(suffix, s, pos)
         IN IF e = -1 THEN FindallFrom(suffix, s, pos + 1)
            ELSE <<SubSeq(s, pos + 1, e)>> \o FindallFrom(suffix, s, e)

Findall(suffix, s) == FindallFrom(suffix, s, 0)

\* str.title(): a cased character is upper-cased when the character before it
\* is not cased, lower-cased otherwise; other characters are kept
Title(w) ==
    [i \in 1..Len(w) |->
        IF IsLetter(w[i])
        THEN IF i > 1 /\ IsLetter(w[i - 1]) THEN LowerChar(w[i]) ELSE UpperChar(w[i])
        ELSE w[i]]

\* str.strip()
RECURSIVE LStrip(_)
LStrip(s) == IF s # <<>> /\ IsSpace(Head(s)) THEN LStrip(Tail(s)) ELSE s
RECURSIVE RStrip(_)
RStrip(s) ==
    IF s # <<>> /\ IsSpace(s[Len(s)]) THEN RStrip(SubSeq(s, 1, Len(s) - 1)) ELSE s
Strip(s) == RStrip(LStrip(s))

---------------------------------------------------------------------------
(* The reference table *)

\* MEDICINE_DATABASE: a dict, iterated in insertion order
MEDICINE_DATABASE == <<
    [key |-> <<"p","a","r","a","c","e","t","a","m","o","l">>,
     info |-> [name |-> <<"P","a","r","a","c","e","t","a","m","o","l">>,
               genericName |-> "Acetaminophen",
               dosage |-> "500mg",
               frequency |-> "3 times daily",
               duration |-> "As needed",
               sideEffects |-> "Rare: skin rash, blood disorders",
               precautions |-> "Do not exceed 4g per day. Avoid alcohol."]],
    [key |-> <<"i","b","u","p","r","o","f","e","n">>,
     info |-> [name |-> <<"I","b","u","p","r","o","f","e","n">>,
               genericName |-> "Ibuprofen",
               dosage |-> "400mg",
               frequency |-> "2-3 times daily",
               duration |-> "Maximum 10 days",
               sideEffects |-> "Stomach upset, dizziness, headache",
               precautions |-> "Take with food. Avoid if allergic to NSAIDs."]],
    [key |-> <<"a","m","o","x","i","c","i","l","l","i","n">>,
     info |-> [name |-> <<"A","m","o","x","i","c","i","l","l","i","n">>,
               genericName |-> "Amoxicillin",
               dosage |-> "250mg-500mg",
               frequency |-> "3 times daily",
               duration |-> "7-10 days",
               sideEffects |-> "Nausea, diarrhea, skin rash",
               precautions |-> "Complete full course. Inform doctor of allergies."]],
    [key |-> <<"a","s","p","i","r","i","n">>,
     info |-> [name |-> <<"A","s","p","i","r","i","n">>,
               genericName |-> "Acetylsalicylic acid",
               dosage |-> "75mg-300mg",
               frequency |-> "Once daily",
               duration |-> "As prescribed",
               sideEffects |-> "Stomach irritation, bleeding",
               precautions |-> "Take with food. Monitor for bleeding."]],
    [key |-> <<"m","e","t","f","o","r","m","i","n">>,
     info |-> [name |-> <<"M","e","t","f","o","r","m","i","n">>,
               genericName |-> "Metformin HCl",
               dosage |-> "500mg-1000mg",
               frequency |-> "2-3 times daily",
               duration |-> "Long term",
               sideEffects |-> "Nausea, diarrhea, metallic taste",
               precautions |-> "Take with meals. Monitor kidney function."]] >>

---------------------------------------------------------------------------
(* analyze_medicines *)

\* the condition of the loop body for one entry of the table
EntryMatches(entry, text_lower) ==
    \/ Contains(entry.key, text_lower)
    \/ Contains(Lower(entry.info.name), text_lower)

\* the loop over MEDICINE_DATABASE.items(), started from the list meds
RECURSIVE ExactPassFrom(_, _, _, _)
ExactPassFrom(table, k, text_lower, meds) ==
    IF k > Len(table) THEN meds
    ELSE ExactPassFrom(table, k + 1, text_lower,
                       IF EntryMatches(table[k], text_lower)
                       THEN Append(meds, table[k].info)
                       ELSE meds)

ExactPass(table, text_lower, meds) == ExactPassFrom(table, 1, text_lower, meds)

\* medicine_patterns: the suffix of each pattern \b\w+<suffix>\b, in order
medicine_patterns == <<
    <<"c","i","l","l","i","n">>,
    <<"o","l">>,
    <<"i","n","e">>,
    <<"m","i","n">> >>

\* found_medicines: the matches of every pattern, pattern by pattern
RECURSIVE FoundFrom(_, _)
FoundFrom(k, text_lower) ==
    IF k > Len(medicine_patterns) THEN <<>>
    ELSE Findall(medicine_patterns[k], text_lower) \o FoundFrom(k + 1, text_lower)

found_medicines(text_lower) == FoundFrom(1, text_lower)

\* found_medicines[:3]
LimitNone(found) == found
Limit(found) == SubSeq(found, 1, IF Len(found) < 3 THEN Len(found) ELSE 3)

\* the generic entry created for one found medicine
GenericEntry(med) ==
    [name |-> Title(med),
     genericName |-> "Please consult your pharmacist",
     dosage |-> "As prescribed",
     frequency |-> "As prescribed",
     duration |-> "As prescribed",
     sideEffects |-> "Consult your doctor or pharmacist",
     precautions |-> "Follow your doctor's instructions"]

\* the block under  if not medicines:
FallbackPass(text_lower, meds) ==
    IF meds # <<>> THEN meds
    ELSE LET found == Limit(found_medicines(text_lower))
         IN meds \o [i \in 1..Len(found) |-> GenericEntry(found[i])]

\* the whole function, reading the table it is given
analyze_medicines(table, text) ==
    LET text_lower == Lower(text)
    IN FallbackPass(text_lower, ExactPass(table, text_lower, <<>>))

---------------------------------------------------------------------------
(* Inputs of MatchSpec *)

\* Pieces of text: reference names in several casings, the four suffixes,
\* word characters (a letter, a digit, an underscore), a separator, and a
\* two-word piece that carries one candidate for each of two patterns.
Fragments == {
    <<"P","a","r","a","c","e","t","a","m","o","l">>,
    <<"a","m","o","x","i","c","i","l","l","i","n">>,
    <<"A","S","P","I","R","I","N">>,
    <<"o","l">>,
    <<"i","n","e">>,
    <<"m","i","n">>,
    <<"x">>,
    <<"1">>,
    <<"_">>,
    <<" ">>,
    <<"B","i","c","i","l","l","i","n"," ","x","o","l"," ">>,
    <<"c","i","l","l","i","n">> }

RECURSIVE TextsOf(_)
TextsOf(n) ==
    IF n = 0 THEN {<<>>}
    ELSE LET shorter == TextsOf(n - 1)
         IN shorter \cup {t \o f : t \in shorter, f \in Fragments}

Texts == TextsOf(MaxFrags)

---------------------------------------------------------------------------
(* MatchSpec: analyze_medicines as a function of its text *)

Invocations == 1..NumInvocations

\* the state of the handler before any invocation
HInit ==
    /\ db = MEDICINE_DATABASE
    /\ storage = {}
    /\ pc = [p \in Invocations |-> "idle"]
    /\ event = [p \in Invocations |-> [body |-> "none"]]
    /\ file_bytes = [p \in Invocations |-> [utf8 |-> TRUE, text |-> <<>>]]
    /\ extracted_text = [p \in Invocations |-> <<>>]
    /\ medicines = [p \in Invocations |-> <<>>]
    /\ response = [p \in Invocations |-> [statusCode |-> 0]]
    /\ trace = [p \in Invocations |-> <<>>]

MInit ==
    /\ HInit
    /\ mtext \in Texts
    /\ mresult = <<>>
    /\ mphase = "call"

\* medicines = analyze_medicines(text)
Analyze ==
    /\ mphase = "call"
    /\ mresult' = analyze_medicines(db, mtext)
    /\ mphase' = "returned"
    /\ UNCHANGED <<mtext, hvars>>

MNext == Analyze

MatchSpec == MInit /\ [][MNext]_vars

---------------------------------------------------------------------------
(* Inputs of Spec: events, payloads and Textract answers *)

\* bytes of a plain-text prescription and of a scanned image
NoteBytes == [utf8 |-> TRUE,
              text |-> <<"T","a","k","e"," ","X","o","l"," ","1","i","n","e">>]
ScanBytes == [utf8 |-> FALSE, text |-> <<>>]
EmptyBytes == [utf8 |-> TRUE, text |-> <<>>]

\* values of body['fileContent']: the key is absent, the empty string, a
\* string base64 rejects (incorrect padding), or the base64 text of some bytes
FileContents == {
    [kind |-> "absent", bytes |-> EmptyBytes],
    [kind |-> "empty", bytes |-> EmptyBytes],
    [kind |-> "badpadding", bytes |-> EmptyBytes],
    [kind |-> "base64", bytes |-> NoteBytes],
    [kind |-> "base64", bytes |-> ScanBytes] }

\* An event whose body does not parse to an object, or a body with its three
\* keys.  A text upload names its file, an image upload leaves both
\* fileName and contentType to their defaults.
MalformedEvent ==
    [body |-> "malformed", fileName |-> "absent", contentType |-> "absent",
     fileContent |-> [kind |-> "absent", bytes |-> EmptyBytes]]

Events ==
    {MalformedEvent} \cup
    {e \in [body : {"object"}, fileName : {"absent", "rx.txt"},
            contentType : {"absent", "text/plain"}, fileContent : FileContents] :
        (e.fileName = "absent") <=> (e.contentType = "absent")}

\* what textract_client.detect_document_text does: it raises, or answers
\* with a list of blocks
TextractAnswers == {
    [raised |-> TRUE, Blocks |-> <<>>],
    [raised |-> FALSE,
     Blocks |-> << [BlockType |-> "PAGE", Text |-> <<>>],
                   [BlockType |-> "LINE", Text |-> <<" ","A","S","P","I","R","I","N">>],
                   [BlockType |-> "WORD", Text |-> <<"A","S","P","I","R","I","N">>],
                   [BlockType |-> "LINE", Text |-> <<"P","a","r","a","c","e","t","a","m","o","l"," ">>] >>],
    [raised |-> FALSE,
     Blocks |-> << [BlockType |-> "LINE", Text |-> <<"x","o","l"," ","o","l">>],
                   [BlockType |-> "LINE", Text |-> <<"a","_","b","i","n","e">>] >>] }

---------------------------------------------------------------------------
(* lambda_handler and extract_text_from_image *)

\* body.get('fileName', f'prescription_{uuid.uuid4()}.jpg'): a fresh name for
\* each invocation when the key is absent
FileName(p, e) ==
    IF e.fileName = "absent" THEN [name |-> "prescription_uuid.jpg", uuid |-> p]
    ELSE [name |-> e.fileName, uuid |-> 0]

\* body.get('contentType', 'image/jpeg')
ContentType(e) == IF e.contentType = "absent" THEN "image/jpeg" ELSE e.contentType

\* content_type.startswith('image/')
IsImage(content_type) == content_type \in {"image/jpeg", "image/png"}

\* not file_content
MissingNoneOnly(fc) == fc.kind = "absent"
Missing(fc) == fc.kind \in {"absent", "empty"}

\* s3_key: the dated prefix is the same for every invocation of a run
S3Key(p, e) == [prefix |-> "prescriptions/date", file_name |-> FileName(p, e)]

\* s3_client.put_object: the object under the key is replaced
PutObject(bucket, key, body, content_type) ==
    {o \in bucket : o.Key # key} \cup
    {[Key |-> key, Body |-> body, ContentType |-> content_type]}

\* the lines of the answer, each followed by a newline
RECURSIVE LinesOf(_)
LinesOf(blocks) ==
    IF blocks = <<>> THEN <<>>
    ELSE (IF Head(blocks).BlockType = "LINE"
          THEN Head(blocks).Text \o <<"\n">> ELSE <<>>) \o LinesOf(Tail(blocks))

\* extract_text_from_image, given what Textract did: the text it returns and
\* whether it raises
extract_propagating(answer) ==
    IF answer.raised THEN [raised |-> TRUE, text |-> <<>>]
    ELSE [raised |-> FALSE, text |-> Strip(LinesOf(answer.Blocks))]
extract_text_from_image(answer) ==
    IF answer.raised THEN [raised |-> FALSE, text |-> <<>>]
    ELSE [raised |-> FALSE, text |-> Strip(LinesOf(answer.Blocks))]

\* where the handler goes after put_object returned or raised
AfterUploadIgnoringFailure(ok) == "extract"
AfterUpload(ok) == IF ok THEN "extract" ELSE "except"

\* the bucket after the except block ran: the block writes a log line and
\* builds the response, nothing else
BucketAfterCleanup(bucket, key) == {o \in bucket : o.Key # key}
BucketAfterExcept(bucket, key) == bucket

\* the list an invocation of analyze_medicines appends to: its own local
SharedList(p) == 1
MedicinesOf(p) == p

\* create_response
create_response(status_code, body) == [statusCode |-> status_code, body |-> body]

Record(p, what) == trace' = [trace EXCEPT ![p] = Append(@, what)]

\* the runtime calls lambda_handler(event, context)
Invoke(p) ==
    /\ pc[p] = "idle"
    /\ \E e \in Events : event' = [event EXCEPT ![p] = e]
    /\ pc' = [pc EXCEPT ![p] = "start"]
    /\ UNCHANGED <<db, storage, file_bytes, extracted_text, medicines, response,
                   trace, mvars>>

\* lines 66-87: parse the body, read its keys, reject a missing fileContent,
\* decode the base64 content
Start(p) ==
    /\ pc[p] = "start"
    /\ LET e == event[p] IN
         IF e.body = "malformed"
         THEN /\ pc' = [pc EXCEPT ![p] = "except"]
              /\ UNCHANGED <<response, file_bytes>>
         ELSE IF Missing(e.fileContent)
         THEN /\ response' = [response EXCEPT ![p] =
                     create_response(400, [error |-> "No file content provided"])]
              /\ pc' = [pc EXCEPT ![p] = "done"]
              /\ UNCHANGED file_bytes
         ELSE IF e.fileContent.kind = "badpadding"
         THEN /\ pc' = [pc EXCEPT ![p] = "except"]
              /\ UNCHANGED <<response, file_bytes>>
         ELSE /\ file_bytes' = [file_bytes EXCEPT ![p] = e.fileContent.bytes]
              /\ pc' = [pc EXCEPT ![p] = "upload"]
              /\ UNCHANGED response
    /\ UNCHANGED <<db, storage, event, extracted_text, medicines, trace, mvars>>

\* lines 90-97: s3_client.put_object, which stores the object or raises
Upload(p) ==
    /\ pc[p] = "upload"
    /\ \E ok \in BOOLEAN :
         /\ storage' = IF ok
                       THEN PutObject(storage, S3Key(p, event[p]), file_bytes[p],
                                      ContentType(event[p]))
                       ELSE storage
         /\ Record(p, IF ok THEN "put_object" ELSE "put_object raised")
         /\ pc' = [pc EXCEPT ![p] = AfterUpload(ok)]
    /\ UNCHANGED <<db, event, file_bytes, extracted_text, medicines, response, mvars>>

\* lines 100-106: Textract for an image, UTF-8 decoding otherwise
Extract(p) ==
    /\ pc[p] = "extract"
    /\ IF IsImage(ContentType(event[p]))
       THEN \E answer \in TextractAnswers :
              LET out == extract_text_from_image(answer) IN
                /\ Record(p, IF answer.raised THEN "detect_document_text raised"
                                               ELSE "detect_document_text")
                /\ IF out.raised
                   THEN /\ pc' = [pc EXCEPT ![p] = "except"]
                        /\ UNCHANGED extracted_text
                   ELSE /\ extracted_text' = [extracted_text EXCEPT ![p] = out.text]
                        /\ pc' = [pc EXCEPT ![p] = "analyze"]
       ELSE /\ Record(p, "decode")
            /\ IF file_bytes[p].utf8
               THEN /\ extracted_text' =
                         [extracted_text EXCEPT ![p] = file_bytes[p].text]
                    /\ pc' = [pc EXCEPT ![p] = "analyze"]
               ELSE /\ pc' = [pc EXCEPT ![p] = "except"]
                    /\ UNCHANGED extracted_text
    /\ UNCHANGED <<db, storage, event, file_bytes, medicines, response, mvars>>

\* lines 109, 148-149: analyze_medicines is entered, medicines = []
AmStart(p) ==
    /\ pc[p] = "analyze"
    /\ medicines' = [medicines EXCEPT ![MedicinesOf(p)] = <<>>]
    /\ Record(p, "analyze_medicines")
    /\ pc' = [pc EXCEPT ![p] = "am_exact"]
    /\ UNCHANGED <<db, storage, event, file_bytes, extracted_text, response, mvars>>

\* lines 152-154: the loop over the table
AmExact(p) ==
    /\ pc[p] = "am_exact"
    /\ medicines' = [medicines EXCEPT ![MedicinesOf(p)] =
                        ExactPass(db, Lower(extracted_text[p]), @)]
    /\ pc' = [pc EXCEPT ![p] = "am_fallback"]
    /\ UNCHANGED <<db, storage, event, file_bytes, extracted_text, response,
                   trace, mvars>>

\* lines 157-184: the patterns, when the loop found nothing
AmFallback(p) ==
    /\ pc[p] = "am_fallback"
    /\ medicines' = [medicines EXCEPT ![MedicinesOf(p)] =
                        FallbackPass(Lower(extracted_text[p]), @)]
    /\ pc' = [pc EXCEPT ![p] = "respond"]
    /\ UNCHANGED <<db, storage, event, file_bytes, extracted_text, response,
                   trace, mvars>>

\* lines 186, 112-121: analyze_medicines returns, the 200 response is built
\* (its timestamp is left out)
Respond(p) ==
    /\ pc[p] = "respond"
    /\ response' = [response EXCEPT ![p] =
          create_response(200,
              [success |-> TRUE,
               fileName |-> FileName(p, event[p]),
               s3Key |-> S3Key(p, event[p]),
               extractedText |-> extracted_text[p],
               medicines |-> medicines[MedicinesOf(p)]])]
    /\ pc' = [pc EXCEPT ![p] = "done"]
    /\ UNCHANGED <<db, storage, event, file_bytes, extracted_text, medicines,
                   trace, mvars>>

\* lines 123-125: the except block
Except(p) ==
    /\ pc[p] = "except"
    /\ response' = [response EXCEPT ![p] =
          create_response(500, [error |-> "Internal server error"])]
    /\ storage' = BucketAfterExcept(storage, S3Key(p, event[p]))
    /\ pc' = [pc EXCEPT ![p] = "done"]
    /\ UNCHANGED <<db, event, file_bytes, extracted_text, medicines, trace, mvars>>

HandlerInit ==
    /\ HInit
    /\ mtext = <<>>
    /\ mresult = <<>>
    /\ mphase = "call"

Next ==
    \E p \in Invocations :
        \/ Invoke(p)
        \/ Start(p)
        \/ Upload(p)
        \/ Extract(p)
        \/ AmStart(p)
        \/ AmExact(p)
        \/ AmFallback(p)
        \/ Respond(p)
        \/ Except(p)

Spec == HandlerInit /\ [][Next]_vars

---------------------------------------------------------------------------
(* Vocabulary of the properties, stated without the program's operators *)

\* sub occurs in s when case is ignored
OccursIgnoringCase(sub, s) ==
    \E i \in 0..(Len(s) - Len(sub)) :
        \A j \in 1..Len(sub) : LowerChar(s[i + j]) = LowerChar(sub[j])

\* the first position at which it does
FirstOccurrence(sub, s) ==
    CHOOSE i \in 0..(Len(s) - Len(sub)) :
        /\ \A j \in 1..Len(sub) : LowerChar(s[i + j]) = LowerChar(sub[j])
        /\ \A i2 \in 0..(i - 1) :
              \E j \in 1..Len(sub) : LowerChar(s[i2 + j]) # LowerChar(sub[j])

\* indices of the table entries whose key or display name occurs in the text
Hits(text) ==
    {k \in 1..Len(MEDICINE_DATABASE) :
        \/ OccursIgnoringCase(MEDICINE_DATABASE[k].key, text)
        \/ OccursIgnoringCase(MEDICINE_DATABASE[k].info.name, text)}

\* the records of a set of entries, in table order
RECURSIVE RecordsOf(_, _)
RecordsOf(hits, k) ==
    IF k > Len(MEDICINE_DATABASE) THEN <<>>
    ELSE (IF k \in hits THEN <<MEDICINE_DATABASE[k].info>> ELSE <<>>)
         \o RecordsOf(hits, k + 1)

\* the words of a text: its maximal runs of word characters, left to right,
\* each lower-cased
RECURSIVE WordsFrom(_, _)
WordsFrom(s, i) ==
    IF i > Len(s) THEN <<>>
    ELSE IF ~IsWordChar(s[i]) THEN WordsFrom(s, i + 1)
    ELSE LET ends == {j \in i..Len(s) :
                        /\ \A m \in i..j : IsWordChar(s[m])
                        /\ (j = Len(s) \/ ~IsWordChar(s[j + 1]))}
             j == CHOOSE j \in ends : TRUE
         w == [m \in 1..(j - i + 1) |-> LowerChar(s[i + m - 1])]
         IN <<w>> \o WordsFrom(s, j + 1)

Words(text) == WordsFrom(text, 1)

EndsWith(w, suffix) ==
    /\ Len(w) >= Len(suffix)
    /\ \A j \in 1..Len(suffix) : w[Len(w) - Len(suffix) + j] = suffix[j]

\* a word that ends in the suffix and has at least one character before it
HasStem(w, suffix) == EndsWith(w, suffix) /\ Len(w) > Len(suffix)

Suffixes == << <<"c","i","l","l","i","n">>, <<"o","l">>, <<"i","n","e">>, <<"m","i","n">> >>

\* the words of ws that end in the suffix, in order; with stemmed = TRUE only
\* those that have a stem
RECURSIVE Ending(_, _, _)
Ending(ws, suffix, stemmed) ==
    IF ws = <<>> THEN <<>>
    ELSE (IF (IF stemmed THEN HasStem(Head(ws), suffix) ELSE EndsWith(Head(ws), suffix))
          THEN <<Head(ws)>> ELSE <<>>)
         \o Ending(Tail(ws), suffix, stemmed)

\* pattern order, then order of occurrence
Candidates(text, stemmed) ==
    Ending(Words(text), Suffixes[1], stemmed) \o Ending(Words(text), Suffixes[2], stemmed)
    \o Ending(Words(text), Suffixes[3], stemmed) \o Ending(Words(text), Suffixes[4], stemmed)

FirstThree(s) == SubSeq(s, 1, IF Len(s) < 3 THEN Len(s) ELSE 3)

LowerCased(w) == [i \in 1..Len(w) |-> LowerChar(w[i])]

\* first character upper-cased, the others lower-cased
Capitalized(w) ==
    [i \in 1..Len(w) |-> IF i = 1 THEN UpperChar(w[i]) ELSE LowerChar(w[i])]

IsPlaceholder(r) ==
    /\ r.genericName = "Please consult your pharmacist"
    /\ r.dosage = "As prescribed"
    /\ r.frequency = "As prescribed"
    /\ r.duration = "As prescribed"
    /\ r.sideEffects = "Consult your doctor or pharmacist"
    /\ r.precautions = "Follow your doctor's instructions"

Has(tr, what) == \E i \in 1..Len(tr) : tr[i] = what
Count(tr, what) == Cardinality({i \in 1..Len(tr) : tr[i] = what})

---------------------------------------------------------------------------
(* Properties of analyze_medicines, under MatchSpec *)

\* C1: when some table entry's key or display name occurs in the text (case
\* ignored), the result is exactly the records of those entries, once each,
\* in table order, and holds no synthesized record.
C1_ExactPass ==
    (mphase = "returned" /\ Hits(mtext) # {}) =>
        /\ mresult = RecordsOf(Hits(mtext), 1)
        /\ \A i \in 1..Len(mresult) : ~IsPlaceholder(mresult[i])

\* two entries are hit, the later one of the table occurs first in the text,
\* and the text also holds a word the fallback patterns would match
C1_Witness ==
    /\ mphase = "returned"
    /\ \E k1, k2 \in Hits(mtext) :
          /\ k1 < k2
          /\ FirstOccurrence(MEDICINE_DATABASE[k2].key, mtext)
               < FirstOccurrence(MEDICINE_DATABASE[k1].key, mtext)
    /\ Candidates(mtext, TRUE) # <<>>
    /\ Len(mresult) = 2

\* C2 (as amended): with no table entry hit, when the text has a word that
\* ends in one of the four suffixes and has at least one word character
\* before it, the result is not empty, has at most 3 records, each a
\* placeholder record named after such a word, the first one after the first
\* such word in pattern-then-occurrence order; when the text has no such
\* word the result is empty.
C2_FallbackStemmed ==
    (mphase = "returned" /\ Hits(mtext) = {}) =>
        LET cands == Candidates(mtext, TRUE) IN
            IF cands = <<>> THEN mresult = <<>>
            ELSE /\ mresult # <<>>
                 /\ Len(mresult) <= 3
                 /\ LowerCased(mresult[1].name) = cands[1]
                 /\ \A i \in 1..Len(mresult) :
                       /\ IsPlaceholder(mresult[i])
                       /\ \E c \in 1..Len(cands) : LowerCased(mresult[i].name) = cands[c]

\* a text with a stemmed word and with a word that is a bare suffix
C2_Witness ==
    /\ mphase = "returned"
    /\ Hits(mtext) = {}
    /\ Candidates(mtext, TRUE) # <<>>
    /\ Len(Candidates(mtext, FALSE)) > Len(Candidates(mtext, TRUE))
    /\ mresult # <<>>

\* C2 as first stated: every word ending in a suffix counts, the bare suffix
\* included, and then the result is not empty.
C2_Original ==
    (mphase = "returned" /\ Hits(mtext) = {} /\ Candidates(mtext, FALSE) # <<>>) =>
        /\ mresult # <<>>
        /\ Len(mresult) = Len(FirstThree(Candidates(mtext, FALSE)))
        /\ \A i \in 1..Len(mresult) :
              LowerCased(mresult[i].name) = Candidates(mtext, FALSE)[i]

\* C3: with no table entry hit, the found words are the cillin matches, then
\* the ol, ine and min matches, each group in text order and with repeats
\* kept, and the result names exactly the first 3 of them (all when fewer).
C3_OrderAndLimit ==
    (mphase = "returned" /\ Hits(mtext) = {}) =>
        LET kept == FirstThree(Candidates(mtext, TRUE)) IN
            /\ Len(mresult) = Len(kept)
            /\ \A i \in 1..Len(kept) : LowerCased(mresult[i].name) = kept[i]

\* four candidates over the cillin and ol patterns, a word repeated, and the
\* fourth dropped
C3_Witness ==
    /\ mphase = "returned"
    /\ Hits(mtext) = {}
    /\ Len(Ending(Words(mtext), Suffixes[1], TRUE)) = 2
    /\ Len(Ending(Words(mtext), Suffixes[2], TRUE)) = 2
    /\ Len(Candidates(mtext, TRUE)) = 4
    /\ Len(mresult) = 3
    /\ mresult[1].name = mresult[2].name
    /\ EndsWith(LowerCased(mresult[3].name), Suffixes[2])

\* C4 as stated: every synthesized record is named after its word with the
\* first character upper-cased and all others lower-cased, and carries the
\* placeholder texts.
C4_Claim ==
    (mphase = "returned" /\ Hits(mtext) = {}) =>
        \A i \in 1..Len(mresult) :
            /\ mresult[i].name = Capitalized(FirstThree(Candidates(mtext, TRUE))[i])
            /\ IsPlaceholder(mresult[i])

\* C5: analyze_medicines returns a list of records for every text, at most
\* one per table entry or at most 3 synthesized ones, and the empty list for the empty text.
C5_Total ==
    mphase = "returned" =>
        /\ Len(mresult) <= Len(MEDICINE_DATABASE)
        /\ \A i \in 1..Len(mresult) :
              DOMAIN mresult[i] = {"name", "genericName", "dosage", "frequency",
                                   "duration", "sideEffects", "precautions"}
        /\ (mtext = <<>> => mresult = <<>>)

C5_Witness == mphase = "returned" /\ mtext = <<>> /\ mresult = <<>>

---------------------------------------------------------------------------
(* Properties of lambda_handler, under Spec *)

Returned(p, status) == pc[p] = "done" /\ response[p].statusCode = status

\* the request carried an object body without a usable fileContent
MissingContent(p) ==
    /\ pc[p] # "idle"
    /\ event[p].body = "object"
    /\ event[p].fileContent.kind \in {"absent", "empty"}

\* something raised while the request was handled
Failed(p) ==
    /\ pc[p] # "idle"
    /\ \/ event[p].body = "malformed"
       \/ event[p].body = "object" /\ event[p].fileContent.kind = "badpadding"
       \/ Has(trace[p], "put_object raised")
       \/ Has(trace[p], "decode") /\ ~file_bytes[p].utf8

Stored(key) == \E o \in storage : o.Key = key

\* C6: the table is never changed, and two invocations that analysed the
\* same text return the same medicines, however their steps interleave.
C6_PureReentrant ==
    /\ db = MEDICINE_DATABASE
    /\ \A p, q \in Invocations :
          (/\ Returned(p, 200)
           /\ Returned(q, 200)
           /\ response[p].body.extractedText = response[q].body.extractedText)
          => response[p].body.medicines = response[q].body.medicines

\* two invocations returned for the same text, with medicines found
C6_Witness ==
    \E p, q \in Invocations :
        /\ p # q
        /\ Returned(p, 200)
        /\ Returned(q, 200)
        /\ response[p].body.extractedText = response[q].body.extractedText
        /\ response[p].body.medicines # <<>>

\* C7: a request without fileContent (absent or empty) gets the 400 response
\* and makes no call to storage, Textract or analyze_medicines; every
\* invocation in which something raised ends with the 500 response, and
\* every finished invocation has a 200, 400 or 500 response.
C7_ErrorResponses ==
    \A p \in Invocations :
        /\ MissingContent(p) =>
              /\ trace[p] = <<>>
              /\ pc[p] \in {"start", "done"}
              /\ pc[p] = "done" => response[p].statusCode = 400
        /\ Failed(p) => pc[p] \notin {"analyze", "am_exact", "am_fallback", "respond"}
        /\ (Failed(p) /\ pc[p] = "done") => response[p].statusCode = 500
        /\ pc[p] = "done" => response[p].statusCode \in {200, 400, 500}

\* one request with an empty fileContent answered 400 and one failed request
\* answered 500
C7_Witness ==
    \E p, q \in Invocations :
        /\ MissingContent(p)
        /\ event[p].fileContent.kind = "empty"
        /\ Returned(p, 400)
        /\ Failed(q)
        /\ Returned(q, 500)

\* C8: when Textract raises on an image whose upload succeeded, the handler
\* goes on with the empty text, analyze_medicines finds nothing, and the
\* response is the 200 response with success true.
C8_OcrFailureSwallowed ==
    \A p \in Invocations :
        Has(trace[p], "detect_document_text raised") =>
            /\ trace[p][1] = "put_object"
            /\ extracted_text[p] = <<>>
            /\ pc[p] \in {"analyze", "am_exact", "am_fallback", "respond", "done"}
            /\ pc[p] = "done" =>
                  /\ response[p].statusCode = 200
                  /\ response[p].body.success
                  /\ response[p].body.extractedText = <<>>
                  /\ response[p].body.medicines = <<>>

C8_Witness ==
    \E p \in Invocations :
        /\ Has(trace[p], "detect_document_text raised")
        /\ Returned(p, 200)
        /\ Stored(S3Key(p, event[p]))

\* C9: in every invocation the successful put_object comes first, then one
\* extraction (Textract or decode), then at most one analyze_medicines; when
\* put_object raised nothing else is called and the response is the 500
\* response.
C9_StepOrder ==
    \A p \in Invocations :
        LET tr == trace[p] IN
            /\ \A i \in 1..Len(tr) :
                  /\ tr[i] \in {"detect_document_text", "detect_document_text raised",
                                "decode"}
                        => (i = 2 /\ tr[1] = "put_object")
                  /\ tr[i] = "analyze_medicines"
                        => /\ i = 3
                           /\ tr[2] \in {"detect_document_text",
                                         "detect_document_text raised", "decode"}
                  /\ tr[i] \in {"put_object", "put_object raised"} => i = 1
            /\ Count(tr, "analyze_medicines") <= 1
            /\ pc[p] \in {"am_exact", "am_fallback", "respond"}
                  => Has(tr, "analyze_medicines")
            /\ Has(tr, "put_object raised") =>
                  /\ tr = <<"put_object raised">>
                  /\ pc[p] \in {"except", "done"}
                  /\ pc[p] = "done" => response[p].statusCode = 500

\* one invocation went through all three steps, another stopped at a failed
\* put_object
C9_Witness ==
    \E p, q \in Invocations :
        /\ Returned(p, 200)
        /\ Len(trace[p]) = 3
        /\ Returned(q, 500)
        /\ trace[q] = <<"put_object raised">>

\* C10: an object that put_object stored stays stored under its key when the
\* invocation fails afterwards and answers 500.
C10_NoCompensation ==
    \A p \in Invocations :
        Has(trace[p], "put_object") => Stored(S3Key(p, event[p]))

\* a text upload whose bytes are not UTF-8: 500, and the bytes are in the
\* bucket
C10_Witness ==
    \E p \in Invocations :
        /\ Returned(p, 500)
        /\ trace[p] = <<"put_object", "decode">>
        /\ \E o \in storage : o.Key = S3Key(p, event[p]) /\ o.Body = file_bytes[p]

============================================================================
